---------------------------- MODULE Spec2Model ----------------------------
(***************************************************************************)
(* Model of the behavior-tree XML loader, instantiator and writer of       *)
(* src/src/xml_parsing.cpp (class XMLParser, struct Tree, writeXML).       *)
(*                                                                         *)
(* An XML element is a record [tag, attrs, kids, line]: attrs is the       *)
(* ordered list of <<name, value>> pairs, kids the ordered child elements, *)
(* line the number tinyxml2 reports through GetLineNum().  Port values and *)
(* blackboard keys are sequences of characters, so that the {key} syntax   *)
(* is parsed rather than assumed; every other attribute value is a string. *)
(***************************************************************************)
EXTENDS Naturals, Sequences, FiniteSets, TLC

VARIABLES
    opened_documents,  \* Pimpl::opened_documents: the documents, in load order
    tree_roots,        \* Pimpl::tree_roots: tree ID -> reference of a <BehaviorTree>
    suffix_count,      \* Pimpl::suffix_count
    current_path,      \* Pimpl::current_path
    load_calls,        \* the outcomes of the load* calls made on the parser, in order
    last_call,         \* the call that produced this state, and its outcome
    output_tree,       \* the Tree returned by the last call, when it was instantiateTree
    written            \* what writeXML returned for output_tree, when it was called

vars == <<opened_documents, tree_roots, suffix_count, current_path,
          load_calls, last_call, output_tree, written>>

-----------------------------------------------------------------------------
(* Bounds of the model. *)

\* load* calls made on the parser
MaxLoads == 2
\* nested calls of loadDocImpl / recursivelyCreateTree followed before the
\* recursion is reported as unbounded
MaxNesting == 4
\* children of the generated control elements
MaxKids == 2

-----------------------------------------------------------------------------
(* Generic helpers. *)

EmptyMap == [k \in {} |-> 0]

Range(s) == {s[i] : i \in 1..Len(s)}

\* concatenation of a sequence of sequences
RECURSIVE Flatten(_)
Flatten(ss) == IF ss = <<>> THEN <<>> ELSE Head(ss) \o Flatten(Tail(ss))

\* the elements of s satisfying Test, in order
SelectIdx(s, Test(_)) ==
    LET RECURSIVE Go(_)
        Go(i) == IF i > Len(s) THEN <<>>
                 ELSE (IF Test(s[i]) THEN <<i>> ELSE <<>>) \o Go(i + 1)
    IN Go(1)

-----------------------------------------------------------------------------
(* tinyxml2 elements. *)

Elem(tag, attrs, kids) == [tag |-> tag, attrs |-> attrs, kids |-> kids, line |-> 0]

\* XMLElement::Attribute(name) != nullptr
HasAttr(e, a) == \E i \in 1..Len(e.attrs) : e.attrs[i][1] = a

\* XMLElement::Attribute(name), for an attribute that is present
Attr(e, a) ==
    e.attrs[CHOOSE i \in 1..Len(e.attrs) :
               /\ e.attrs[i][1] = a
               /\ \A j \in 1..(i - 1) : e.attrs[j][1] # a][2]

\* FirstChildElement(name) / NextSiblingElement(name): positions of the
\* children with that tag, in document order
KidsNamed(e, tag) == SelectIdx(e.kids, LAMBDA k : k.tag = tag)

\* a count that stops at the first child
ChildrenCountFirst(parent_node) == IF parent_node.kids = <<>> THEN 0 ELSE 1

\* lambda ChildrenCount of verifyXML
ChildrenCount(parent_node) == Len(parent_node.kids)

(* XMLDocument::Parse / LoadFile lay the text out one opening tag per line: *)
(* the root is on line 1 and the elements follow in document order.         *)
RECURSIVE NumberElem(_, _)
RECURSIVE NumberKids(_, _)
NumberElem(e, n) ==
    LET ks == NumberKids(e.kids, n + 1)
    IN  [e |-> [e EXCEPT !.line = n, !.kids = ks.kids], next |-> ks.next]
NumberKids(kids, n) ==
    IF kids = <<>> THEN [kids |-> <<>>, next |-> n]
    ELSE LET h == NumberElem(Head(kids), n)
             t == NumberKids(Tail(kids), h.next)
         IN  [kids |-> <<h.e>> \o t.kids, next |-> t.next]

NoElem == Elem("", <<>>, <<>>)

\* a text is [wellformed, root]; XMLDocument::Parse sets Error() on a text
\* that is not well-formed XML
Text(root) == [wellformed |-> TRUE, root |-> root]
Malformed == [wellformed |-> FALSE, root |-> NoElem]
Parse(text) ==
    IF text.wellformed THEN [err |-> FALSE, root |-> NumberElem(text.root, 1).e]
    ELSE [err |-> TRUE, root |-> NoElem]

-----------------------------------------------------------------------------
(* filesystem::path, as the parser uses it.  The text of a path is the     *)
(* sequence of its components, "/" first when it is absolute.              *)

\* filesystem::path(const std::string&)
PathOf(str) ==
    IF str # <<>> /\ Head(str) = "/" THEN [abs |-> TRUE, parts |-> Tail(str)]
    ELSE [abs |-> FALSE, parts |-> str]

\* path::str()
PathStr(p) == IF p.abs THEN <<"/">> \o p.parts ELSE p.parts

\* path::getcwd()
Getcwd == [abs |-> TRUE, parts |-> <<"cwd">>]

\* path::operator/
PathJoin(a, b) == [abs |-> a.abs, parts |-> a.parts \o b.parts]

\* path::parent_path()
ParentPath(p) ==
    [abs |-> p.abs,
     parts |-> IF p.parts = <<>> THEN <<>> ELSE SubSeq(p.parts, 1, Len(p.parts) - 1)]

\* path::make_absolute()
MakeAbsolute(p) == IF p.abs THEN p ELSE PathJoin(Getcwd, p)

-----------------------------------------------------------------------------
(* Outcome of a call: it returned, it threw RuntimeError, or it left the   *)
(* defined behaviour of the language (a null XMLElement* is dereferenced,   *)
(* or the recursion has no end).                                           *)

Outcome(kind, what, line, arg, types) ==
    [kind |-> kind, what |-> what, line |-> line, arg |-> arg, types |-> types]
Returned == Outcome("returned", "", 0, "", {})
Thrown(what, line, arg) == Outcome("thrown", what, line, arg, {})
Undefined(what) == Outcome("undefined", what, 0, "", {})
Unbounded == Outcome("unbounded", "recursion without end", 0, "", {})

\* lambda ThrowError of verifyXML: "Error at line %d: -> %s"
ThrowError(line_num, text, arg) == Thrown(text, line_num, arg)

-----------------------------------------------------------------------------
(* The factory, which the parser only reads: builders(), manifests(),       *)
(* builtinNodes() and instantiateTreeNode().  The registry below is the one *)
(* the parser is exercised with: the builtin Sequence, Inverter and SubTree *)
(* and five user-registered node types.                                     *)

NoInfo == "null"

Port(direction, info) == [type |-> direction, info |-> info]

Manifest(ID, type, ports) == [registration_ID |-> ID, type |-> type, ports |-> ports]

Manifests ==
    [Sequence |-> Manifest("Sequence", "Control", EmptyMap),
     Inverter |-> Manifest("Inverter", "Decorator", EmptyMap),
     SubTree  |-> Manifest("SubTree", "SubTree", EmptyMap),
     Ping     |-> Manifest("Ping", "Action", EmptyMap),
     PortA    |-> Manifest("PortA", "Action", "x" :> Port("INPUT", "int")),
     PortB    |-> Manifest("PortB", "Action",
                           ("y" :> Port("INPUT", "string")) @@ ("w" :> Port("OUTPUT", NoInfo))),
     PortC    |-> Manifest("PortC", "Condition", "z" :> Port("INOUT", "int")),
     MyCtrl   |-> Manifest("MyCtrl", "Control", EmptyMap)]

\* BehaviorTreeFactory::builders(): a builder is registered with its manifest
Builders == DOMAIN Manifests

\* BehaviorTreeFactory::builtinNodes()
BuiltinNodes == {"Sequence", "Inverter", "SubTree"}

-----------------------------------------------------------------------------
(* XMLParser::Pimpl::verifyXML *)

\* the recursive lambda recursiveStep of verifyXML: the outcome of the walk
\* from node, which stops at the first ThrowError
RECURSIVE VerifyStep(_, _)
RECURSIVE VerifyChildren(_, _)
VerifyStep(node, roots) ==
    LET children_count == ChildrenCount(node)
        name == node.tag
        own ==
            IF name = "Decorator" THEN
                IF children_count # 1
                THEN ThrowError(node.line, "The node <Decorator> must have exactly 1 child", "")
                ELSE IF ~HasAttr(node, "ID")
                THEN ThrowError(node.line, "The node <Decorator> must have the attribute [ID]", "")
                ELSE Returned
            ELSE IF name = "Action" THEN
                IF children_count # 0
                THEN ThrowError(node.line, "The node <Action> must not have any child", "")
                ELSE IF ~HasAttr(node, "ID")
                THEN ThrowError(node.line, "The node <Action> must have the attribute [ID]", "")
                ELSE Returned
            ELSE IF name = "Condition" THEN
                IF children_count # 0
                THEN ThrowError(node.line, "The node <Condition> must not have any child", "")
                ELSE IF ~HasAttr(node, "ID")
                THEN ThrowError(node.line, "The node <Condition> must have the attribute [ID]", "")
                ELSE Returned
            ELSE IF name \in {"Sequence", "SequenceStar", "Fallback", "FallbackStar"} THEN
                IF children_count = 0
                THEN ThrowError(node.line, "A Control node must have at least 1 child", "")
                ELSE Returned
            ELSE IF name = "SubTree" THEN
                IF \E i \in 1..Len(node.kids) : node.kids[i].tag # "remap"
                THEN ThrowError(node.line, "<SubTree> accept only childs of type <remap>", "")
                ELSE IF ~HasAttr(node, "ID")
                THEN ThrowError(node.line, "The node <SubTree> must have the attribute [ID]", "")
                ELSE Returned
            ELSE
                \* search in the factory and the list of subtrees
                IF name \in DOMAIN Manifests \/ name \in DOMAIN roots
                THEN Returned
                ELSE ThrowError(node.line, "Node not recognized", name)
    IN  IF own.kind # "returned" THEN own
        ELSE IF name = "SubTree" THEN Returned
        ELSE VerifyChildren(node.kids, roots)
VerifyChildren(kids, roots) ==
    IF kids = <<>> THEN Returned
    ELSE LET h == VerifyStep(Head(kids), roots)
         IN  IF h.kind # "returned" THEN h ELSE VerifyChildren(Tail(kids), roots)

\* the loop over the <BehaviorTree> children of the root (lines 324-340)
RECURSIVE VerifyTrees(_, _)
VerifyTrees(bts, roots) ==
    IF bts = <<>> THEN Returned
    ELSE LET bt_root == Head(bts)
             h == IF ChildrenCount(bt_root) # 1
                  THEN ThrowError(bt_root.line,
                                  "The node <BehaviorTree> must have exactly 1 child", "")
                  ELSE VerifyStep(bt_root.kids[1], roots)
         IN  IF h.kind # "returned" THEN h ELSE VerifyTrees(Tail(bts), roots)

\* the two errors of the main-tree check (lines 347 and 354)
MainTreeNotFound == "The tree specified in [main_tree_to_execute] can't be found"
NotASingleTree == "If you don't specify the attribute [main_tree_to_execute], Your file must contain a single BehaviorTree"

\* the main-tree check at the end of verifyXML (lines 342-358)
VerifyMainTree(xml_root) ==
    LET bts == [i \in 1..Len(KidsNamed(xml_root, "BehaviorTree")) |->
                    xml_root.kids[KidsNamed(xml_root, "BehaviorTree")[i]]]
        tree_names == {Attr(bts[i], "ID") : i \in {j \in 1..Len(bts) : HasAttr(bts[j], "ID")}}
        tree_count == Len(bts)
    IN  IF HasAttr(xml_root, "main_tree_to_execute")
        THEN IF Attr(xml_root, "main_tree_to_execute") \notin tree_names
             THEN Thrown(MainTreeNotFound, 0, "")
             ELSE Returned
        ELSE IF tree_count # 1
             THEN Thrown(NotASingleTree, 0, "")
             ELSE Returned

VerifyXML(doc, roots) ==
    LET xml_root == doc.root
        metas == KidsNamed(xml_root, "TreeNodesModel")
        noID == {i \in 1..Len(xml_root.kids) :
                    /\ xml_root.kids[i].tag \in {"Action", "Decorator", "SubTree", "Condition"}
                    /\ ~HasAttr(xml_root.kids[i], "ID")}
        bts == [i \in 1..Len(KidsNamed(xml_root, "BehaviorTree")) |->
                    xml_root.kids[KidsNamed(xml_root, "BehaviorTree")[i]]]
    IN  IF xml_root.tag # "root"
        THEN Thrown("The XML must have a root node called <root>", 0, "")
        ELSE IF Len(metas) > 1
        THEN ThrowError(xml_root.kids[metas[2]].line,
                        " Only a single node <TreeNodesModel> is supported", "")
        ELSE IF Len(metas) = 1 /\ noID # {}
        THEN ThrowError(xml_root.kids[CHOOSE i \in noID : \A j \in noID : i <= j].line,
                        "The attribute [ID] is mandatory", "")
        ELSE LET walk == VerifyTrees(bts, roots)
             IN  IF walk.kind # "returned" THEN walk ELSE VerifyMainTree(xml_root)

-----------------------------------------------------------------------------
(* XMLParser::Pimpl::loadDocImpl, on the parser state                      *)
(* p = [docs, roots, suffix, cur] (opened_documents, tree_roots,           *)
(* suffix_count, current_path).  A <BehaviorTree> element is referred to   *)
(* by its document and its position under the document's root, which is    *)
(* what the XMLElement pointer of tree_roots identifies.                   *)

TreeRef(d, k) == [doc |-> d, kid |-> k]
NullRef == [doc |-> 0, kid |-> 0]

\* std::unordered_map::insert: an existing key keeps its value
MapInsert(m, k, v) == IF k \in DOMAIN m THEN m ELSE m @@ (k :> v)

\* the loop of lines 155-168 over the <BehaviorTree> children at positions bts
RECURSIVE IndexTrees(_, _, _)
IndexTrees(p, d, bts) ==
    IF bts = <<>> THEN p
    ELSE LET bt_node == p.docs[d].root.kids[Head(bts)]
             hasID == HasAttr(bt_node, "ID")
             tree_name == IF hasID THEN Attr(bt_node, "ID")
                          ELSE "BehaviorTree_" \o ToString(p.suffix)
         IN  IndexTrees([p EXCEPT !.suffix = IF hasID THEN @ ELSE @ + 1,
                                  !.roots = MapInsert(@, tree_name, TreeRef(d, Head(bts)))],
                        d, Tail(bts))

\* XMLDocument::LoadFile: a file that does not exist leaves Error() set
LoadFile(files, str) ==
    LET full == PathStr(MakeAbsolute(PathOf(str)))
    IN  IF full \in DOMAIN files THEN Parse(files[full]) ELSE Parse(Malformed)

\* the path an <include> element is loaded from (lines 124-147)
IncludePath(p, include_node) ==
    LET file_path == PathOf(Attr(include_node, "path"))
    IN  IF ~file_path.abs THEN PathJoin(p.cur, file_path) ELSE file_path

RECURSIVE LoadDocImpl(_, _, _, _)
RECURSIVE LoadIncludes(_, _, _, _, _)
LoadDocImpl(files, p, d, depth) ==
    LET doc == p.docs[d]
    IN  IF doc.err THEN [p |-> p, res |-> Thrown("Error parsing the XML", 0, "")]
        ELSE LET inc == LoadIncludes(files, p, d, KidsNamed(doc.root, "include"), depth)
             IN  IF inc.res.kind # "returned" THEN inc
                 ELSE LET q == IndexTrees(inc.p, d, KidsNamed(doc.root, "BehaviorTree"))
                      IN  [p |-> q, res |-> VerifyXML(doc, q.roots)]
LoadIncludes(files, p, d, incs, depth) ==
    IF incs = <<>> THEN [p |-> p, res |-> Returned]
    ELSE LET include_node == p.docs[d].root.kids[Head(incs)]
         IN  IF ~HasAttr(include_node, "path")
             THEN [p |-> p, res |-> Undefined("filesystem::path built from a null pointer")]
             ELSE IF HasAttr(include_node, "ros_pkg")
             THEN [p |-> p, res |-> Thrown("Using attribute [ros_pkg] in <include>, but this library was compiled without ROS support", 0, "")]
             ELSE IF depth >= MaxNesting
             THEN [p |-> p, res |-> Unbounded]
             ELSE LET q == [p EXCEPT !.docs = Append(@, LoadFile(files, PathStr(IncludePath(p, include_node))))]
                      sub == LoadDocImpl(files, q, Len(q.docs), depth + 1)
                  IN  IF sub.res.kind # "returned" THEN sub
                      ELSE LoadIncludes(files, sub.p, d, Tail(incs), depth)

\* XMLParser::loadFromFile
LoadFromFileImpl(files, p, filename) ==
    LET q == [p EXCEPT !.docs = Append(@, LoadFile(files, filename)),
                       !.cur = MakeAbsolute(ParentPath(PathOf(filename)))]
    IN  LoadDocImpl(files, q, Len(q.docs), 0)

\* XMLParser::loadFromText
LoadFromTextImpl(files, p, xml_text) ==
    LET q == [p EXCEPT !.docs = Append(@, Parse(xml_text))]
    IN  LoadDocImpl(files, q, Len(q.docs), 0)

-----------------------------------------------------------------------------
(* The blackboard, which the parser uses through create(parent),           *)
(* addSubtreeRemapping, portType and setPortType.  A blackboard is         *)
(* [parent, remap, types]; the blackboards of one instantiation are the    *)
(* entries of Tree::blackboard_stack and are referred to by their index    *)
(* there (0: no blackboard).                                               *)

\* Blackboard::create(parent)
BlackboardCreate(parent) == [parent |-> parent, remap |-> EmptyMap, types |-> EmptyMap]

\* Blackboard::addSubtreeRemapping(internal, external)
AddSubtreeRemapping(bb, internal, external) ==
    [bb EXCEPT !.remap = (internal :> external) @@ @]

\* Blackboard::portType(key): a remapped key is looked up in the parent
RECURSIVE PortType(_, _, _)
PortType(bbs, b, key) ==
    IF bbs[b].parent # 0 /\ key \in DOMAIN bbs[b].remap
    THEN PortType(bbs, bbs[b].parent, bbs[b].remap[key])
    ELSE IF key \in DOMAIN bbs[b].types THEN bbs[b].types[key] ELSE NoInfo

\* Blackboard::setPortType(key, type): a remapped key is set in the parent
RECURSIVE SetPortType(_, _, _, _)
SetPortType(bbs, b, key, type) ==
    IF bbs[b].parent # 0 /\ key \in DOMAIN bbs[b].remap
    THEN SetPortType(bbs, bbs[b].parent, bbs[b].remap[key], type)
    ELSE [bbs EXCEPT ![b].types = (key :> type) @@ @]

\* TreeNode::getRemappedKey(port_name, remapping_value): <<is a blackboard
\* reference, the key>> of a value of the form {key}
GetRemappedKey(port_name, remapping_value) ==
    IF /\ Len(remapping_value) >= 3
       /\ remapping_value[1] = "{"
       /\ remapping_value[Len(remapping_value)] = "}"
    THEN <<TRUE, SubSeq(remapping_value, 2, Len(remapping_value) - 1)>>
    ELSE <<FALSE, <<>>>>

-----------------------------------------------------------------------------
(* Nodes.  A node of Tree::nodes is referred to by its index there (0: no  *)
(* node); children holds the child pointers of a ControlNode or the single *)
(* child of a DecoratorNode.                                               *)

NodeConfiguration(blackboard, input_ports, output_ports) ==
    [blackboard |-> blackboard, input_ports |-> input_ports, output_ports |-> output_ports]

\* BehaviorTreeFactory::instantiateTreeNode(name, ID, config)
InstantiateTreeNode(name, ID, config) ==
    [registration_ID |-> ID, name |-> name, type |-> Manifests[ID].type,
     config |-> config, children |-> <<>>]

\* new DecoratorSubtreeNode(name): no registration name, default configuration
DecoratorSubtreeNode(name) ==
    [registration_ID |-> "", name |-> name, type |-> "SubTree",
     config |-> NodeConfiguration(0, EmptyMap, EmptyMap), children |-> <<>>]

\* dynamic_cast<ControlNode*>
IsControlNode(node) == node.type = "Control"
\* dynamic_cast<DecoratorNode*>: DecoratorSubtreeNode is a DecoratorNode
IsDecoratorNode(node) == node.type \in {"Decorator", "SubTree"}

-----------------------------------------------------------------------------
(* XMLParser::Pimpl::createNodeFromXML, on the tree under construction     *)
(* t = [nodes, blackboard_stack].                                          *)

\* lines 434-441: every attribute but ID and name is a port remapping
RemappingParameters(element) ==
    LET names == {element.attrs[i][1] : i \in 1..Len(element.attrs)} \ {"ID", "name"}
    IN  [n \in names |-> Attr(element, n)]

\* the two errors of createNodeFromXML about ports (lines 458 and 495)
PossibleTypo == "Possible typo"
TypeMismatch == "The creation of the tree failed because the port was initially created with one type and, later, another type was used somewhere else"

\* lines 466-507: the types of the ports mapped to a blackboard key are
\* recorded in the blackboard, or compared with the type recorded there
RECURSIVE InitPortTypes(_, _, _, _, _)
InitPortTypes(bbs, blackboard, manifest, remapping_parameters, ports) ==
    IF ports = {} THEN [bbs |-> bbs, res |-> Returned]
    ELSE LET port_name == CHOOSE n \in ports : TRUE
             port == manifest.ports[port_name]
             rest == ports \ {port_name}
         IN  IF port.info = NoInfo \/ port_name \notin DOMAIN remapping_parameters
             THEN InitPortTypes(bbs, blackboard, manifest, remapping_parameters, rest)
             ELSE LET pair == GetRemappedKey(port_name, remapping_parameters[port_name])
                      prev_type == PortType(bbs, blackboard, pair[2])
                  IN  IF ~pair[1]
                      THEN InitPortTypes(bbs, blackboard, manifest, remapping_parameters, rest)
                      ELSE IF prev_type = NoInfo
                      THEN InitPortTypes(SetPortType(bbs, blackboard, pair[2], port.info),
                                         blackboard, manifest, remapping_parameters, rest)
                      ELSE IF prev_type # port.info
                      THEN [bbs |-> bbs,
                            res |-> Outcome("thrown", TypeMismatch, 0, "", {prev_type, port.info})]
                      ELSE InitPortTypes(bbs, blackboard, manifest, remapping_parameters, rest)

\* lines 509-526
ConfigPorts(manifest, remapping_parameters, excluded) ==
    LET names == {n \in DOMAIN remapping_parameters :
                     n \in DOMAIN manifest.ports /\ manifest.ports[n].type # excluded}
    IN  [n \in names |-> remapping_parameters[n]]

\* ControlNode::addChild
AddChild(nodes, parent, child) ==
    [nodes |-> [nodes EXCEPT ![parent].children = Append(@, child)], res |-> Returned]

\* DecoratorNode::setChild: a decorator that has a child refuses a second one
SetChild(nodes, parent, child) ==
    IF nodes[parent].children # <<>>
    THEN [nodes |-> nodes,
          res |-> Thrown("Decorator has already a child assigned", 0, nodes[parent].name)]
    ELSE [nodes |-> [nodes EXCEPT ![parent].children = <<child>>], res |-> Returned]

\* lines 536-546: the new node, which will be nodes[child], is attached to
\* node_parent when that is a control node or a decorator
LinkToParent(nodes, node_parent, child) ==
    IF node_parent = 0 THEN [nodes |-> nodes, res |-> Returned]
    ELSE IF IsControlNode(nodes[node_parent]) THEN AddChild(nodes, node_parent, child)
    ELSE IF IsDecoratorNode(nodes[node_parent]) THEN SetChild(nodes, node_parent, child)
    ELSE [nodes |-> nodes, res |-> Returned]

\* lines 407-415: the registration ID of an element
ElementID(element) ==
    IF element.tag \in {"Action", "Decorator", "Condition"} THEN Attr(element, "ID")
    ELSE element.tag

\* the result is [t, res, node]: node is the new node, not yet in t.nodes
CreateNodeFromXML(roots, t, element, blackboard, node_parent) ==
    LET element_name == element.tag
        byID == element_name \in {"Action", "Decorator", "Condition"}
        ID == ElementID(element)
        instance_name == IF element_name = "SubTree" THEN Attr(element, "ID")
                         ELSE IF HasAttr(element, "name") THEN Attr(element, "name")
                         ELSE ID
        remapping_parameters == RemappingParameters(element)
        none == DecoratorSubtreeNode("")
        fail(res) == [t |-> t, res |-> res, node |-> none]
        link(tt, node) ==
            LET l == LinkToParent(tt.nodes, node_parent, Len(tt.nodes) + 1)
            IN  [t |-> [tt EXCEPT !.nodes = l.nodes], res |-> l.res, node |-> node]
    IN  IF (byID \/ element_name = "SubTree") /\ ~HasAttr(element, "ID")
        THEN fail(Undefined("std::string built from a null pointer"))
        ELSE IF ID \in Builders
        THEN LET manifest == Manifests[ID]
             IN  IF \E n \in DOMAIN remapping_parameters : n \notin DOMAIN manifest.ports
                 THEN fail(Thrown(PossibleTypo, 0, ID))
                 ELSE LET typed == InitPortTypes(t.blackboard_stack, blackboard, manifest,
                                                 remapping_parameters, DOMAIN manifest.ports)
                          config == NodeConfiguration(blackboard,
                                        ConfigPorts(manifest, remapping_parameters, "OUTPUT"),
                                        ConfigPorts(manifest, remapping_parameters, "INPUT"))
                      IN  IF typed.res.kind # "returned" THEN fail(typed.res)
                          ELSE link([t EXCEPT !.blackboard_stack = typed.bbs],
                                    InstantiateTreeNode(instance_name, ID, config))
        ELSE IF ID \in DOMAIN roots
        THEN link(t, DecoratorSubtreeNode(instance_name))
        ELSE fail(Thrown("is not a registered node, nor a Subtree", 0, ID))

-----------------------------------------------------------------------------
(* XMLParser::Pimpl::recursivelyCreateTree and XMLParser::instantiateTree. *)
(* Each entry of t.nodes carries, beside the node, the node_parent it was  *)
(* created under (xml_parent), the line of its XML element, the            *)
(* registration ID of that element (xml_ID) and the blackboard its element *)
(* was configured in (scope).                                              *)

Deref(docs, ref) == docs[ref.doc].root.kids[ref.kid]

\* lines 568-573
RECURSIVE AddRemaps(_, _)
AddRemaps(bb, remaps) ==
    IF remaps = <<>> THEN bb
    ELSE AddRemaps(AddSubtreeRemapping(bb, Attr(Head(remaps), "internal"),
                                       Attr(Head(remaps), "external")),
                   Tail(remaps))

\* the blackboard of the scope the <SubTree> element is in
SubtreeParentScope(t, blackboard) == blackboard

\* lines 565-566: the blackboard a subtree's blackboard is created under
SubtreeParentBlackboard(t, blackboard) == Len(t.blackboard_stack)

RECURSIVE RecursivelyCreateTree(_, _, _, _, _, _, _)
RECURSIVE RecursiveStep(_, _, _, _, _, _, _)
RECURSIVE StepCreated(_, _, _, _, _, _, _)
RECURSIVE StepChildren(_, _, _, _, _, _, _)
RECURSIVE StepSiblings(_, _, _, _, _, _, _)
RecursivelyCreateTree(docs, roots, t, tree_ID, blackboard, root_parent, depth) ==
    IF tree_ID \notin DOMAIN roots \/ roots[tree_ID] = NullRef
    THEN [t |-> t, res |-> Undefined("tree_roots[tree_ID] is a null XMLElement*")]
    ELSE IF Deref(docs, roots[tree_ID]).kids = <<>>
    THEN [t |-> t, res |-> Undefined("the <BehaviorTree> has no child: null XMLElement*")]
    ELSE RecursiveStep(docs, roots, t, blackboard, root_parent,
                       Deref(docs, roots[tree_ID]).kids[1], depth)
\* line 560: the node is created, and attached to parent
RecursiveStep(docs, roots, t, blackboard, parent, element, depth) ==
    StepCreated(docs, roots, CreateNodeFromXML(roots, t, element, blackboard, parent),
                blackboard, parent, element, depth)
\* lines 561-585, made being what createNodeFromXML gave
StepCreated(docs, roots, made, blackboard, parent, element, depth) ==
    LET node == made.node @@ [xml_parent |-> parent, line |-> element.line,
                              scope |-> blackboard, xml_ID |-> ElementID(element)]
        t1 == [made.t EXCEPT !.nodes = Append(@, node)]
        me == Len(t1.nodes)
        remaps == [i \in 1..Len(KidsNamed(element, "remap")) |->
                       element.kids[KidsNamed(element, "remap")[i]]]
    IN  IF made.res.kind # "returned" THEN [t |-> made.t, res |-> made.res]
        ELSE IF node.type = "SubTree"
        THEN IF \E i \in 1..Len(remaps) :
                    ~HasAttr(remaps[i], "internal") \/ ~HasAttr(remaps[i], "external")
             THEN [t |-> t1, res |-> Undefined("std::string built from a null pointer")]
             ELSE IF depth >= MaxNesting THEN [t |-> t1, res |-> Unbounded]
             ELSE LET parent_bb == SubtreeParentBlackboard(t1, blackboard)
                      new_bb == AddRemaps(BlackboardCreate(parent_bb), remaps)
                      t2 == [t1 EXCEPT !.blackboard_stack = Append(@, new_bb)]
                  IN  RecursivelyCreateTree(docs, roots, t2, node.name,
                                            Len(t2.blackboard_stack), me, depth + 1)
        ELSE StepChildren(docs, roots, t1, blackboard, me, element.kids, depth)
\* lines 580-584: the child elements in order
StepChildren(docs, roots, t, blackboard, parent, kids, depth) ==
    IF kids = <<>> THEN [t |-> t, res |-> Returned]
    ELSE StepSiblings(docs, roots,
                      RecursiveStep(docs, roots, t, blackboard, parent, Head(kids), depth),
                      blackboard, parent, kids, depth)
\* the siblings after the first of kids, h being what the first gave: an
\* exception ends the loop
StepSiblings(docs, roots, h, blackboard, parent, kids, depth) ==
    IF h.res.kind # "returned" THEN h
    ELSE StepChildren(docs, roots, h.t, blackboard, parent, Tail(kids), depth)

\* root_node taken from the other end of nodes
RootNodeBack(nodes) == Len(nodes)

\* lines 392-395: root_node is nodes.front()
RootNode(nodes) == IF Len(nodes) > 0 THEN 1 ELSE 0

NoTree == [root_node |-> 0, nodes |-> <<>>, blackboard_stack |-> <<>>]

NullBlackboard == [null |-> TRUE, bb |-> BlackboardCreate(0)]
NewBlackboard == [null |-> FALSE, bb |-> BlackboardCreate(0)]

\* lines 392-396: the Tree returned, made being what recursivelyCreateTree
\* gave
OutputTree(made) ==
    IF made.res.kind # "returned" THEN [tree |-> NoTree, res |-> made.res]
    ELSE [tree |-> [root_node |-> RootNode(made.t.nodes),
                    nodes |-> made.t.nodes,
                    blackboard_stack |-> made.t.blackboard_stack],
          res |-> Returned]

\* XMLParser::instantiateTree: [tree, res]
InstantiateTreeImpl(docs, roots, root_blackboard) ==
    IF docs = <<>>
    THEN [tree |-> NoTree, res |-> Undefined("front() of an empty list")]
    ELSE IF docs[1].err
    THEN [tree |-> NoTree, res |-> Undefined("RootElement() is a null XMLElement*")]
    ELSE LET xml_root == docs[1].root
             selected == HasAttr(xml_root, "main_tree_to_execute")
                            \/ Cardinality(DOMAIN roots) = 1
             main_tree_ID == IF HasAttr(xml_root, "main_tree_to_execute")
                             THEN Attr(xml_root, "main_tree_to_execute")
                             ELSE CHOOSE k \in DOMAIN roots : TRUE
         IN  IF ~selected
             THEN [tree |-> NoTree,
                   res |-> Thrown("[main_tree_to_execute] was not specified correctly", 0, "")]
             ELSE IF root_blackboard.null
             THEN [tree |-> NoTree,
                   res |-> Thrown("XMLParser::instantiateTree needs a non-empty root_blackboard", 0, "")]
             ELSE OutputTree(RecursivelyCreateTree(docs, roots,
                                 [nodes |-> <<>>,
                                  blackboard_stack |-> <<root_blackboard.bb>>],
                                 main_tree_ID, 1, 0, 0))

-----------------------------------------------------------------------------
(* writeXML.  The maps of a node's configuration and of a manifest are     *)
(* unordered; their entries are emitted in one fixed order.                *)

RECURSIVE SetToSeq(_)
SetToSeq(S) ==
    IF S = {} THEN <<>>
    ELSE LET x == CHOOSE y \in S : TRUE IN <<x>> \o SetToSeq(S \ {x})

\* lines 631-649: the name of the element written for a node
WrittenTag(node, compact_representation) ==
    IF node.type = "Control" THEN node.registration_ID
    ELSE IF compact_representation /\ node.registration_ID \in DOMAIN Manifests
    THEN node.registration_ID
    ELSE node.type

\* lines 651-674: the attributes of the element written for a node
WrittenAttrs(node, node_type) ==
    LET node_ID == node.registration_ID
        node_name == node.name
        ins == SetToSeq(DOMAIN node.config.input_ports)
        outs == SetToSeq(DOMAIN node.config.output_ports \ DOMAIN node.config.input_ports)
    IN  (IF node_type # node_ID /\ node_ID # "" THEN << <<"ID", node_ID>> >> ELSE <<>>)
        \o (IF node_type # node_name /\ node_name # "" /\ node_name # node_ID
            THEN << <<"name", node_name>> >> ELSE <<>>)
        \o [i \in 1..Len(ins) |-> <<ins[i], node.config.input_ports[ins[i]]>>]
        \o [i \in 1..Len(outs) |-> <<outs[i], node.config.output_ports[outs[i]]>>]

\* the lambda recursiveVisitor: [e, res], the element written for node n
\* with the elements of its children
RECURSIVE RecursiveVisitor(_, _, _)
RECURSIVE VisitChildren(_, _, _)
RecursiveVisitor(nodes, n, compact_representation) ==
    IF n = 0 THEN [e |-> NoElem, res |-> Undefined("a null TreeNode* is dereferenced")]
    ELSE LET node == nodes[n]
             node_type == WrittenTag(node, compact_representation)
             kids == IF IsControlNode(node) THEN VisitChildren(nodes, node.children, compact_representation)
                     ELSE IF IsDecoratorNode(node)
                     THEN RecursiveVisitor(nodes, IF node.children = <<>> THEN 0 ELSE node.children[1],
                                           compact_representation)
                     ELSE [e |-> NoElem, res |-> Returned]
         IN  [e |-> Elem(node_type, WrittenAttrs(node, node_type),
                         IF IsControlNode(node) THEN kids.e
                         ELSE IF IsDecoratorNode(node) THEN <<kids.e>> ELSE <<>>),
              res |-> kids.res]
VisitChildren(nodes, children, compact_representation) ==
    IF children = <<>> THEN [e |-> <<>>, res |-> Returned]
    ELSE LET h == RecursiveVisitor(nodes, Head(children), compact_representation)
             t == VisitChildren(nodes, Tail(children), compact_representation)
         IN  [e |-> <<h.e>> \o t.e, res |-> IF h.res.kind # "returned" THEN h.res ELSE t.res]

\* lines 703-711: the manifests that get an element in <TreeNodesModel>
ModelledManifests ==
    {id \in DOMAIN Manifests : id \notin BuiltinNodes /\ Manifests[id].type # "Control"}

\* lines 712-746: the element of one manifest; a list of port names is the
\* value of its attribute
ModelElement(model) ==
    LET ports(direction) == SetToSeq({n \in DOMAIN model.ports : model.ports[n].type = direction})
        group(attr, direction) ==
            IF ports(direction) # <<>> THEN << <<attr, ports(direction)>> >> ELSE <<>>
    IN  Elem(model.type,
             << <<"ID", model.registration_ID>> >>
                \o group("input_ports", "INPUT") \o group("output_ports", "OUTPUT")
                \o group("inout_ports", "INOUT"),
             <<>>)

TreeNodesModel ==
    LET ids == SetToSeq(ModelledManifests)
    IN  Elem("TreeNodesModel", <<>>, [i \in 1..Len(ids) |-> ModelElement(Manifests[ids[i]])])

\* writeXML(factory, root_node, compact_representation): [text, res]
WriteXMLImpl(nodes, root_node, compact_representation) ==
    LET body == RecursiveVisitor(nodes, root_node, compact_representation)
    IN  IF root_node = 0
        THEN [text |-> Text(Elem("root", <<>>, <<TreeNodesModel>>)), res |-> Returned]
        ELSE IF body.res.kind # "returned" THEN [text |-> Malformed, res |-> body.res]
        ELSE [text |-> Text(Elem("root", <<>>,
                                 <<Elem("BehaviorTree", <<>>, <<body.e>>), TreeNodesModel>>)),
              res |-> Returned]

-----------------------------------------------------------------------------
(* The texts and files the parser is given. *)

Action(ID) == Elem("Action", << <<"ID", ID>> >>, <<>>)
ActionNamed(ID, name) == Elem("Action", << <<"ID", ID>>, <<"name", name>> >>, <<>>)
ActionPort(ID, port, value) == Elem("Action", << <<"ID", ID>>, <<port, value>> >>, <<>>)
ConditionPort(ID, port, value) == Elem("Condition", << <<"ID", ID>>, <<port, value>> >>, <<>>)
Decorator(ID, kids) == Elem("Decorator", << <<"ID", ID>> >>, kids)
Sequence(kids) == Elem("Sequence", <<>>, kids)
Compact(tag, kids) == Elem(tag, <<>>, kids)
Remap(internal, external) ==
    Elem("remap", << <<"internal", internal>>, <<"external", external>> >>, <<>>)
SubTree(ID, remaps) == Elem("SubTree", << <<"ID", ID>> >>, remaps)
BehaviorTree(ID, kids) == Elem("BehaviorTree", << <<"ID", ID>> >>, kids)
BehaviorTreeNoID(kids) == Elem("BehaviorTree", <<>>, kids)
Include(path) == Elem("include", << <<"path", path>> >>, <<>>)
Root(kids) == Text(Elem("root", <<>>, kids))
RootMain(main, kids) == Text(Elem("root", << <<"main_tree_to_execute", main>> >>, kids))

\* blackboard references and keys
Ref(key) == <<"{">> \o key \o <<"}">>
KeyShared == <<"s">>
KeyIn == <<"i", "n">>
KeyOuter == <<"o">>

\* S1: a single tree with no ID
TextSingle == Root(<<BehaviorTreeNoID(<<Sequence(<<Action("Ping")>>)>>)>>)
\* S2: two trees and no main_tree_to_execute
TextTwoTrees ==
    Root(<<BehaviorTree("T1", <<Action("Ping")>>), BehaviorTree("T2", <<Action("Ping")>>)>>)
\* S3: a <Decorator> with two children
TextDecoratorArity ==
    Root(<<BehaviorTreeNoID(<<Decorator("Inverter", <<Action("Ping"), Action("Ping")>>)>>)>>)
\* S4: an element that is no node and no tree
TextUnknownElement == Root(<<BehaviorTreeNoID(<<Sequence(<<Action("Ping"), Compact("Foo", <<>>)>>)>>)>>)
\* S5: two ports of different types on one key, and two of the same type
TextPortConflict ==
    Root(<<BehaviorTreeNoID(<<Sequence(<<ActionPort("PortA", "x", Ref(KeyShared)),
                                         ActionPort("PortB", "y", Ref(KeyShared))>>)>>)>>)
TextPortAgree ==
    Root(<<BehaviorTreeNoID(<<Sequence(<<ActionPort("PortA", "x", Ref(KeyShared)),
                                         ConditionPort("PortC", "z", Ref(KeyShared)),
                                         ActionPort("PortB", "w", <<"4", "2">>)>>)>>)>>)
\* S6 twice: two sibling subtrees whose port is remapped to one outer key
TextSiblingSubtrees ==
    RootMain("Main",
        <<BehaviorTree("Main", <<Sequence(<<SubTree("SubA", <<Remap(KeyIn, KeyOuter)>>),
                                            SubTree("SubB", <<Remap(KeyIn, KeyOuter)>>)>>)>>),
          BehaviorTree("SubA", <<ActionPort("PortA", "x", Ref(KeyIn))>>),
          BehaviorTree("SubB", <<ActionPort("PortB", "y", Ref(KeyIn))>>)>>)
\* a subtree and a node of the enclosing tree on one outer key
TextRemapConflict ==
    RootMain("Main",
        <<BehaviorTree("Main", <<Sequence(<<ActionPort("PortB", "y", Ref(KeyOuter)),
                                            SubTree("SubA", <<Remap(KeyIn, KeyOuter)>>)>>)>>),
          BehaviorTree("SubA", <<ActionPort("PortA", "x", Ref(KeyIn))>>)>>)
\* an <Action> whose ID no builder is registered under
TextUnknownID == Root(<<BehaviorTreeNoID(<<Sequence(<<Action("Nope")>>)>>)>>)
\* a decorator and a leaf written by their registration ID, with children
TextCompactDecorator ==
    Root(<<BehaviorTreeNoID(<<Compact("Inverter", <<Action("Ping"), Action("Ping")>>)>>)>>)
TextLeafWithChild ==
    Root(<<BehaviorTreeNoID(<<Compact("Ping", <<Action("Ping")>>)>>)>>)
\* two trees with one ID
TextDuplicateID ==
    RootMain("T", <<BehaviorTree("T", <<Action("Ping")>>),
                    BehaviorTree("T", <<Sequence(<<Action("Ping")>>)>>)>>)
\* a <SubTree> whose ID is no tree
TextMissingSubtree == Root(<<BehaviorTreeNoID(<<SubTree("Missing", <<>>)>>)>>)
\* a tree referred to by an element named after it, with a name attribute
TextNamedReference ==
    RootMain("Main",
        <<BehaviorTree("Main", <<Elem("Sub", << <<"name", "other">> >>, <<>>)>>),
          BehaviorTree("Sub", <<Action("Ping")>>)>>)
\* a tree referred to by an element named after it and by an <Action> with
\* its ID, without name attribute
TextPlainReference ==
    RootMain("Main",
        <<BehaviorTree("Main", <<Sequence(<<Compact("Sub", <<>>), Action("Sub")>>)>>),
          BehaviorTree("Sub", <<Action("Ping")>>)>>)
\* the same, the name attribute being the ID of another tree
TextNamedOtherTree ==
    RootMain("Main",
        <<BehaviorTree("Main", <<Elem("Sub", << <<"name", "Other">> >>, <<>>)>>),
          BehaviorTree("Sub", <<Action("Ping")>>),
          BehaviorTree("Other", <<Sequence(<<Action("Ping")>>)>>)>>)
\* a tree that refers to itself
TextRecursive ==
    RootMain("R", <<BehaviorTree("R", <<Sequence(<<Action("Ping"), SubTree("R", <<>>)>>)>>)>>)
\* the main tree is valid, another tree is not
TextBadSecondTree ==
    RootMain("Main", <<BehaviorTree("Main", <<ActionNamed("Ping", "first")>>),
                       BehaviorTree("Other", <<Compact("Foo", <<>>)>>)>>)
\* an element named after a tree that only a later load declares
TextUsesLater == Root(<<BehaviorTree("Early", <<Compact("T1", <<>>)>>)>>)

\* tree bodies in which one element breaks a rule of lines 239-295: at the
\* root of the body, below a control element, below an element written by
\* its registration ID
RuleBodies ==
    {Decorator("Inverter", <<>>),
     Elem("Decorator", <<>>, <<Action("Ping")>>),
     Elem("Action", << <<"ID", "Ping">> >>, <<Action("Ping")>>),
     Elem("Action", <<>>, <<>>),
     Elem("Condition", << <<"ID", "PortC">> >>, <<Action("Ping")>>),
     Elem("Condition", <<>>, <<>>),
     Sequence(<<>>),
     Elem("SubTree", << <<"ID", "T">> >>, <<Action("Ping")>>),
     Elem("SubTree", <<>>, <<>>),
     Sequence(<<Action("Ping"), Sequence(<<Decorator("Inverter", <<>>)>>)>>),
     Sequence(<<Decorator("Inverter", <<Action("Ping")>>), Elem("Action", <<>>, <<>>)>>),
     Compact("MyCtrl", <<Sequence(<<>>)>>)}

\* texts that break a rule of lines 239-295 or 332-335, the last one in its
\* second tree
RuleTexts ==
    {Root(<<BehaviorTreeNoID(<<body>>)>>) : body \in RuleBodies}
        \cup {Root(<<BehaviorTreeNoID(<<>>)>>),
              Root(<<BehaviorTreeNoID(<<Action("Ping"), Action("Ping")>>)>>),
              RootMain("Main", <<BehaviorTree("Main", <<Action("Ping")>>),
                                 BehaviorTree("B", <<Sequence(<<>>)>>)>>)}

Texts ==
    {TextSingle, TextTwoTrees, TextDecoratorArity, TextUnknownElement, TextPortConflict,
     TextPortAgree, TextSiblingSubtrees, TextRemapConflict, TextUnknownID,
     TextCompactDecorator, TextLeafWithChild, TextDuplicateID, TextMissingSubtree,
     TextNamedReference, TextPlainReference, TextNamedOtherTree, TextRecursive,
     TextBadSecondTree, TextUsesLater, Malformed}
        \cup RuleTexts

\* the files: /p/main.xml includes sub/inc.xml, which includes deep.xml of
\* its own directory; /p/lib.xml holds two trees; /p/badinc.xml includes
\* bad.xml, which breaks a rule; /p/child.xml uses a tree
\* of the file that includes it; the main tree of /p/mainone.xml is the tree
\* of the file it includes; /p/cycle.xml includes itself
Files ==
    (<<"/", "p", "main.xml">> :>
        RootMain("IncTree", <<Include(<<"sub", "inc.xml">>),
                              BehaviorTree("Main", <<Action("Ping")>>)>>))
    @@ (<<"/", "p", "sub", "inc.xml">> :>
        Root(<<Include(<<"deep.xml">>), BehaviorTree("IncTree", <<Action("Ping")>>)>>))
    @@ (<<"/", "p", "sub", "deep.xml">> :>
        Root(<<BehaviorTree("DeepTree", <<Action("Ping")>>)>>))
    @@ (<<"/", "p", "lib.xml">> :>
        Root(<<BehaviorTree("LibA", <<Action("Ping")>>), BehaviorTree("LibB", <<Action("Ping")>>)>>))
    @@ (<<"/", "p", "uselib.xml">> :>
        RootMain("Main", <<Include(<<"lib.xml">>),
                           BehaviorTree("Main", <<Sequence(<<SubTree("LibA", <<>>)>>)>>)>>))
    @@ (<<"/", "p", "parent.xml">> :>
        RootMain("Mine", <<Include(<<"child.xml">>),
                           BehaviorTree("Mine", <<Action("Ping")>>)>>))
    @@ (<<"/", "p", "child.xml">> :>
        Root(<<BehaviorTree("Child", <<Compact("Mine", <<>>)>>)>>))
    @@ (<<"/", "p", "mainone.xml">> :>
        RootMain("One", <<Include(<<"one.xml">>),
                          BehaviorTree("Main", <<Action("Ping")>>)>>))
    @@ (<<"/", "p", "one.xml">> :>
        Root(<<BehaviorTree("One", <<Action("Ping")>>)>>))
    @@ (<<"/", "p", "cycle.xml">> :>
        Root(<<Include(<<"cycle.xml">>), BehaviorTree("Cyc", <<Action("Ping")>>)>>))
    @@ (<<"/", "p", "badinc.xml">> :>
        Root(<<Include(<<"bad.xml">>), BehaviorTree("Good", <<Action("Ping")>>)>>))
    @@ (<<"/", "p", "bad.xml">> :>
        Root(<<BehaviorTree("Bad", <<Sequence(<<Action("Ping"),
                                                Decorator("Inverter", <<>>)>>)>>)>>))

\* the file names given to loadFromFile
FileNames ==
    {<<"/", "p", "main.xml">>, <<"/", "p", "sub", "inc.xml">>, <<"/", "p", "uselib.xml">>,
     <<"/", "p", "parent.xml">>, <<"/", "p", "mainone.xml">>, <<"/", "p", "cycle.xml">>,
     <<"/", "p", "absent.xml">>, <<"/", "p", "badinc.xml">>}

-----------------------------------------------------------------------------
(* The calls on one parser. *)

Parser == [docs |-> opened_documents, roots |-> tree_roots,
           suffix |-> suffix_count, cur |-> current_path]

\* a call that left the defined behaviour ends the process
Alive == last_call.res.kind \in {"returned", "thrown"}

NotWritten == [text |-> Malformed, res |-> Returned, compact |-> FALSE]

\* arg is the argument of the call: the text, the file name, the root
\* blackboard or compact_representation
Call(op, arg, res) == [op |-> op, arg |-> arg, res |-> res]

Loaded(op, arg, after) ==
    /\ opened_documents' = after.p.docs
    /\ tree_roots' = after.p.roots
    /\ suffix_count' = after.p.suffix
    /\ current_path' = after.p.cur
    /\ load_calls' = Append(load_calls, after.res)
    /\ last_call' = Call(op, arg, after.res)
    /\ output_tree' = NoTree
    /\ written' = NotWritten

LoadFromText(xml_text) ==
    /\ Alive
    /\ Len(load_calls) < MaxLoads
    /\ Loaded("loadFromText", xml_text, LoadFromTextImpl(Files, Parser, xml_text))

LoadFromFile(filename) ==
    /\ Alive
    /\ Len(load_calls) < MaxLoads
    /\ Loaded("loadFromFile", filename, LoadFromFileImpl(Files, Parser, filename))

InstantiateTree(root_blackboard) ==
    /\ Alive
    /\ LET made == InstantiateTreeImpl(opened_documents, tree_roots, root_blackboard)
       IN  /\ last_call' = Call("instantiateTree", root_blackboard, made.res)
           /\ output_tree' = made.tree
    /\ written' = NotWritten
    /\ UNCHANGED <<opened_documents, tree_roots, suffix_count, current_path, load_calls>>

WriteXML(compact_representation) ==
    /\ Alive
    /\ last_call.op = "instantiateTree"
    /\ LET out == WriteXMLImpl(output_tree.nodes, output_tree.root_node, compact_representation)
       IN  /\ last_call' = Call("writeXML", compact_representation, out.res)
           /\ written' = [text |-> out.text, res |-> out.res, compact |-> compact_representation]
    /\ UNCHANGED <<opened_documents, tree_roots, suffix_count, current_path, load_calls, output_tree>>

Init ==
    /\ opened_documents = <<>>
    /\ tree_roots = EmptyMap
    /\ suffix_count = 0
    /\ current_path = Getcwd
    /\ load_calls = <<>>
    /\ last_call = Call("XMLParser", FALSE, Returned)
    /\ output_tree = NoTree
    /\ written = NotWritten

Next ==
    \/ \E xml_text \in Texts : LoadFromText(xml_text)
    \/ \E filename \in FileNames : LoadFromFile(filename)
    \/ \E root_blackboard \in {NullBlackboard, NewBlackboard} : InstantiateTree(root_blackboard)
    \/ \E compact_representation \in BOOLEAN : WriteXML(compact_representation)

Spec == Init /\ [][Next]_vars

-----------------------------------------------------------------------------
(* A second family of texts, generated: the main tree is a leaf, a control *)
(* node with up to MaxKids leaves, a control node with such a control node *)
(* among its children, or a decorator; a leaf is an action or a reference  *)
(* to the tree Sub, which itself refers to the tree Leaf.                  *)

\* load* calls made with the generated texts
MaxGenLoads == 1

GenLeaves == {Action("Ping"), SubTree("Sub", <<>>)}

GenFlat == {Sequence(ks) : ks \in UNION {[1..n -> GenLeaves] : n \in 1..MaxKids}}

GenNested ==
    {Sequence(<<f>>) : f \in GenFlat}
        \cup {Sequence(<<f, l>>) : f \in GenFlat, l \in GenLeaves}
        \cup {Sequence(<<l, f>>) : f \in GenFlat, l \in GenLeaves}

GenDecorated == {Decorator("Inverter", <<x>>) : x \in GenLeaves \cup GenFlat}

GenText(body) ==
    RootMain("Main",
        <<BehaviorTree("Main", <<body>>),
          BehaviorTree("Sub", <<Sequence(<<Action("Ping"),
                                           SubTree("Leaf", <<Remap(KeyIn, KeyOuter)>>)>>)>>),
          BehaviorTree("Leaf", <<ActionPort("PortA", "x", Ref(KeyIn))>>)>>)

GenTexts == {GenText(body) : body \in GenLeaves \cup GenFlat \cup GenNested \cup GenDecorated}

LoadGenerated(xml_text) ==
    /\ Alive
    /\ Len(load_calls) < MaxGenLoads
    /\ Loaded("loadFromText", xml_text, LoadFromTextImpl(Files, Parser, xml_text))

NextGen ==
    \/ \E xml_text \in GenTexts \cup Texts : LoadGenerated(xml_text)
    \/ \E root_blackboard \in {NullBlackboard, NewBlackboard} : InstantiateTree(root_blackboard)
    \/ \E compact_representation \in BOOLEAN : WriteXML(compact_representation)

SpecGen == Init /\ [][NextGen]_vars

-----------------------------------------------------------------------------
(* What the claims are stated with. *)

\* instantiateTree returned a Tree, which output_tree holds (also after a
\* writeXML of that tree)
TreeReturned ==
    \/ last_call.op = "instantiateTree" /\ last_call.res.kind = "returned"
    \/ last_call.op = "writeXML" /\ output_tree.root_node # 0

\* every load* call made so far returned without error, and there was one
AllLoadsReturned ==
    /\ load_calls # <<>>
    /\ \A i \in 1..Len(load_calls) : load_calls[i].kind = "returned"

Children(tree, n) == Range(tree.nodes[n].children)

\* n and the nodes below it in the parent-to-child relation
RECURSIVE Descendants(_, _)
Descendants(tree, n) == {n} \cup UNION {Descendants(tree, c) : c \in Children(tree, n)}

\* the nodes of type SubTree, in the order of tree.nodes
SubtreeNodes(tree) == SelectIdx(tree.nodes, LAMBDA node : node.type = "SubTree")

-----------------------------------------------------------------------------
\* C2: in every tree instantiateTree returns, root_node is nodes[0], every
\* node comes after the node it was created under and after its parent, the
\* children of a node come in the order in which they were added, and each
\* child with all the nodes below it comes before the next child of the same
\* parent.
C2_NodesInPreOrder ==
    TreeReturned =>
        /\ output_tree.nodes # <<>>
        /\ output_tree.root_node = 1
        /\ \A n \in 2..Len(output_tree.nodes) : output_tree.nodes[n].xml_parent \in 1..(n - 1)
        /\ \A p \in 1..Len(output_tree.nodes) :
              LET kids == output_tree.nodes[p].children
              IN  /\ \A i \in 1..Len(kids) : p < kids[i] /\ kids[i] <= Len(output_tree.nodes)
                  /\ \A i, j \in 1..Len(kids) :
                        i < j => \A d \in Descendants(output_tree, kids[i]) : d < kids[j]

\* a tree was returned in which a node has two children, the first of them
\* with children of its own
C2_Witness ==
    /\ TreeReturned
    /\ \E p \in 1..Len(output_tree.nodes) :
          /\ Len(output_tree.nodes[p].children) >= 2
          /\ output_tree.nodes[output_tree.nodes[p].children[1]].children # <<>>

-----------------------------------------------------------------------------
\* C4: in every tree instantiateTree returns, blackboard_stack[0] is the root
\* blackboard the caller supplied, every later entry has the entry just
\* before it as its parent, there is one entry for each node of type SubTree,
\* and the k-th of these nodes, in the order of tree.nodes, has its child
\* configured in the entry k places after the first.
C4_BlackboardStack ==
    TreeReturned =>
        LET stack == output_tree.blackboard_stack
            subs == SubtreeNodes(output_tree)
        IN  /\ stack # <<>>
            /\ stack[1].parent = 0
            /\ stack[1].remap = EmptyMap
            /\ output_tree.nodes[1].scope = 1
            /\ \A i \in 2..Len(stack) : stack[i].parent = i - 1
            /\ Len(stack) = 1 + Len(subs)
            /\ \A k \in 1..Len(subs) :
                  \A c \in Children(output_tree, subs[k]) :
                      output_tree.nodes[c].scope = k + 1

\* a tree was returned with two subtree expansions side by side and one
\* expansion inside another
C4_Witness ==
    /\ TreeReturned
    /\ Len(output_tree.blackboard_stack) >= 4
    /\ \E p \in 1..Len(output_tree.nodes) :
          Cardinality({c \in Children(output_tree, p) :
                          output_tree.nodes[c].type = "SubTree"}) >= 2
    /\ \E s \in Range(SubtreeNodes(output_tree)) :
          \E d \in Descendants(output_tree, s) \ {s} : output_tree.nodes[d].type = "SubTree"

-----------------------------------------------------------------------------
\* C1: when every load* call returned, instantiateTree with a non-null root
\* blackboard returns a tree or fails with the port-name typo error or the
\* port-type mismatch error, and with nothing else.
C1_ValidationTotal ==
    (last_call.op = "instantiateTree" /\ AllLoadsReturned /\ ~last_call.arg.null) =>
        \/ last_call.res.kind = "returned"
        \/ /\ last_call.res.kind = "thrown"
           /\ last_call.res.what \in {PossibleTypo, TypeMismatch}

-----------------------------------------------------------------------------
\* C3: in every tree returned from documents whose loads all returned, each
\* node but nodes[0] is a child of exactly one node, and that node is the
\* one it was created under.
C3_OneParentEach ==
    (TreeReturned /\ AllLoadsReturned) =>
        \A n \in 2..Len(output_tree.nodes) :
            {p \in 1..Len(output_tree.nodes) : n \in Children(output_tree, p)}
                = {output_tree.nodes[n].xml_parent}

-----------------------------------------------------------------------------
\* C5: in every tree returned, the blackboard created for a subtree node has
\* as its parent the blackboard of the scope the node's element was
\* configured in.
C5_SubtreeScopeIsEnclosing ==
    TreeReturned =>
        LET subs == SubtreeNodes(output_tree)
        IN  \A k \in 1..Len(subs) :
                output_tree.blackboard_stack[k + 1].parent = output_tree.nodes[subs[k]].scope

-----------------------------------------------------------------------------
(* The blackboard slot a key of scope b denotes: a key remapped by the     *)
(* subtree of scope b is the external key in the scope around that         *)
(* subtree's element.                                                      *)
EnclosingScope(tree, b) == tree.nodes[SubtreeNodes(tree)[b - 1]].scope

RECURSIVE Slot(_, _, _)
Slot(tree, b, key) ==
    IF b > 1 /\ key \in DOMAIN tree.blackboard_stack[b].remap
    THEN Slot(tree, EnclosingScope(tree, b), tree.blackboard_stack[b].remap[key])
    ELSE <<b, key>>

\* the typed ports of the nodes of tree that are mapped to a blackboard key:
\* [node, slot, type]
TypedUses(tree) ==
    UNION {
        LET node == tree.nodes[n]
            mapped == node.config.input_ports @@ node.config.output_ports
        IN  IF node.registration_ID \notin DOMAIN Manifests THEN {}
            ELSE {[node |-> n,
                   slot |-> Slot(tree, node.scope, GetRemappedKey(port, mapped[port])[2]),
                   type |-> Manifests[node.registration_ID].ports[port].info] :
                  port \in {q \in DOMAIN mapped :
                               /\ Manifests[node.registration_ID].ports[q].info # NoInfo
                               /\ GetRemappedKey(q, mapped[q])[1]}}
        : n \in 1..Len(tree.nodes)}

\* C6: instantiateTree returns a tree only if every two typed ports mapped to
\* one blackboard slot have the same type, and the error it fails with on a
\* conflict names the two types.
C6_SameSlotSameType ==
    /\ TreeReturned =>
          \A u, v \in TypedUses(output_tree) : u.slot = v.slot => u.type = v.type
    /\ (last_call.op = "instantiateTree" /\ last_call.res.what = TypeMismatch) =>
          Cardinality(last_call.res.types) = 2

-----------------------------------------------------------------------------
\* buildTreeFromText, lines 594-600, on a parser of its own
NewParser == [docs |-> <<>>, roots |-> EmptyMap, suffix |-> 0, cur |-> Getcwd]

BuildTreeFromText(text, blackboard) ==
    LET loaded == LoadFromTextImpl(Files, NewParser, text)
    IN  IF loaded.res.kind # "returned" THEN [tree |-> NoTree, res |-> loaded.res]
        ELSE InstantiateTreeImpl(loaded.p.docs, loaded.p.roots, blackboard)

\* the node n of a tree with the nodes below it: kind, registration ID,
\* instance name, port maps and children in order
RECURSIVE Shape(_, _)
Shape(tree, n) ==
    LET node == tree.nodes[n]
    IN  [type |-> node.type, registration_ID |-> node.registration_ID, name |-> node.name,
         input_ports |-> node.config.input_ports, output_ports |-> node.config.output_ports,
         kids |-> [i \in 1..Len(node.children) |-> Shape(tree, node.children[i])]]

\* C7: the text writeXML returns for a tree instantiated from documents that
\* loaded loads without error and instantiates to a tree of the same shape.
C7_WriteThenParse ==
    (last_call.op = "writeXML" /\ output_tree.root_node # 0 /\ AllLoadsReturned) =>
        /\ last_call.res.kind = "returned"
        /\ LET back == BuildTreeFromText(written.text, NewBlackboard)
           IN  /\ back.res.kind = "returned"
               /\ Shape(back.tree, back.tree.root_node)
                      = Shape(output_tree, output_tree.root_node)

-----------------------------------------------------------------------------
IsLoad == last_call.op \in {"loadFromText", "loadFromFile"}

\* the <BehaviorTree> elements of the documents opened, as references
TreesDeclared ==
    UNION {{TreeRef(d, k) : k \in Range(KidsNamed(opened_documents[d].root, "BehaviorTree"))}
           : d \in {i \in 1..Len(opened_documents) : ~opened_documents[i].err}}

\* rule 6 as stated: the main tree of the primary document is in the index,
\* or there is no such attribute and one tree in all documents
Rule6Holds ==
    LET primary == opened_documents[1].root
    IN  IF HasAttr(primary, "main_tree_to_execute")
        THEN Attr(primary, "main_tree_to_execute") \in DOMAIN tree_roots
        ELSE Cardinality(TreesDeclared) = 1

\* C8: a load returns only if rule 6 holds of the primary document and the
\* index, and fails with one of the two errors of rule 6 only if it does not.
C8_MainTreeSelection ==
    (IsLoad /\ ~opened_documents[1].err) =>
        /\ last_call.res.kind = "returned" => Rule6Holds
        /\ last_call.res.what \in {MainTreeNotFound, NotASingleTree} => ~Rule6Holds

-----------------------------------------------------------------------------
\* C9: when every load* call returned, each <BehaviorTree> element of each
\* document is the entry of the index under its ID or, without ID, under a
\* name BehaviorTree_<n> with n below suffix_count, and suffix_count is the
\* number of <BehaviorTree> elements without ID.
C9_EveryTreeIndexed ==
    AllLoadsReturned =>
        /\ \A ref \in TreesDeclared :
              LET bt == Deref(opened_documents, ref)
              IN  \E key \in DOMAIN tree_roots :
                      /\ tree_roots[key] = ref
                      /\ HasAttr(bt, "ID") => key = Attr(bt, "ID")
                      /\ ~HasAttr(bt, "ID") =>
                             \E n \in 0..(suffix_count - 1) :
                                 key = "BehaviorTree_" \o ToString(n)
        /\ suffix_count = Cardinality({ref \in TreesDeclared :
                                          ~HasAttr(Deref(opened_documents, ref), "ID")})

-----------------------------------------------------------------------------
\* the IDs of the <BehaviorTree> elements of the documents opened
DeclaredTreeIDs ==
    {Attr(Deref(opened_documents, ref), "ID") :
        ref \in {r \in TreesDeclared : HasAttr(Deref(opened_documents, r), "ID")}}

\* C10: a load fails with 'Node not recognized' only for an element whose
\* name is no registration ID of the manifests, no key of the index and no
\* ID of a tree declared in a document of the session.
C10_RecognizedNames ==
    (IsLoad /\ last_call.res.what = "Node not recognized") =>
        /\ last_call.res.line > 0
        /\ last_call.res.arg \notin
              DOMAIN Manifests \cup DOMAIN tree_roots \cup DeclaredTreeIDs


-----------------------------------------------------------------------------
\* the elements of a tree body that the rules are about: the element, and
\* unless it is a <SubTree> the elements below it
RECURSIVE BodyElements(_)
BodyElements(e) ==
    {e} \cup (IF e.tag = "SubTree" THEN {}
              ELSE UNION {BodyElements(e.kids[i]) : i \in 1..Len(e.kids)})

\* the <BehaviorTree> elements of a document
TreesOf(xml_root) ==
    {xml_root.kids[i] : i \in Range(KidsNamed(xml_root, "BehaviorTree"))}

\* the elements of the tree bodies of a document
BodiesOf(xml_root) ==
    UNION {UNION {BodyElements(bt.kids[i]) : i \in 1..Len(bt.kids)} : bt \in TreesOf(xml_root)}

ControlNames == {"Sequence", "SequenceStar", "Fallback", "FallbackStar"}

\* the rules as stated, of an element of a tree body
BreaksRule(e) ==
    \/ e.tag = "Decorator" /\ (Len(e.kids) # 1 \/ ~HasAttr(e, "ID"))
    \/ e.tag \in {"Action", "Condition"} /\ (Len(e.kids) # 0 \/ ~HasAttr(e, "ID"))
    \/ e.tag \in ControlNames /\ Len(e.kids) = 0
    \/ e.tag = "SubTree" /\ (~HasAttr(e, "ID") \/ \E i \in 1..Len(e.kids) : e.kids[i].tag # "remap")

\* the lines of the elements of a document that break a rule
RuleBreakers(xml_root) ==
    {bt.line : bt \in {b \in TreesOf(xml_root) : Len(b.kids) # 1}}
        \cup {e.line : e \in {b \in BodiesOf(xml_root) : BreaksRule(b)}}

\* the lines of the elements of the bodies whose name is none the validator
\* knows
NotRecognized(xml_root) ==
    {e.line : e \in {b \in BodiesOf(xml_root) :
                        b.tag \notin {"Decorator", "Action", "Condition", "SubTree"}
                                         \cup ControlNames \cup DOMAIN Manifests
                                         \cup DOMAIN tree_roots}}

\* the errors of the rules (lines 243-294 and 334)
RuleErrors ==
    {"The node <Decorator> must have exactly 1 child",
     "The node <Decorator> must have the attribute [ID]",
     "The node <Action> must not have any child",
     "The node <Action> must have the attribute [ID]",
     "The node <Condition> must not have any child",
     "The node <Condition> must have the attribute [ID]",
     "A Control node must have at least 1 child",
     "<SubTree> accept only childs of type <remap>",
     "The node <SubTree> must have the attribute [ID]",
     "The node <BehaviorTree> must have exactly 1 child"}

WellFormedDocs == {d \in 1..Len(opened_documents) : ~opened_documents[d].err}

\* the first call on the parser was loadFromText of a text with the root
\* <root>, no <include> and no <TreeNodesModel>
FirstLoadOfPlainText ==
    /\ last_call.op = "loadFromText"
    /\ Len(load_calls) = 1
    /\ ~opened_documents[1].err
    /\ opened_documents[1].root.tag = "root"
    /\ KidsNamed(opened_documents[1].root, "include") = <<>>
    /\ KidsNamed(opened_documents[1].root, "TreeNodesModel") = <<>>

\* C11: when every load* call returned, no <BehaviorTree> and no element of
\* a tree body of any document breaks its rule; a load that fails with the
\* error of a rule carries the line of an element that breaks a rule; and
\* the load of a text alone fails at the line of the first element, in
\* document order, that breaks a rule or has a name not recognized.
C11_StructuralRules ==
    /\ AllLoadsReturned =>
          \A d \in WellFormedDocs : RuleBreakers(opened_documents[d].root) = {}
    /\ (IsLoad /\ last_call.res.what \in RuleErrors) =>
          /\ last_call.res.kind = "thrown"
          /\ last_call.res.line > 0
          /\ \E d \in WellFormedDocs :
                 last_call.res.line \in RuleBreakers(opened_documents[d].root)
    /\ FirstLoadOfPlainText =>
          LET breakers == RuleBreakers(opened_documents[1].root)
              offending == breakers \cup NotRecognized(opened_documents[1].root)
          IN  /\ breakers # {} =>
                    /\ last_call.res.kind = "thrown"
                    /\ last_call.res.line \in offending
                    /\ \A l \in offending : last_call.res.line <= l
              /\ breakers = {} => last_call.res.what \notin RuleErrors

\* a load failed with the error of a rule at an element three levels below
\* its <BehaviorTree>, in a text or in an included file
C11_Witness ==
    /\ IsLoad
    /\ last_call.res.what \in RuleErrors
    /\ last_call.res.line >= 5


-----------------------------------------------------------------------------
\* the elements of the <TreeNodesModel> of the text written
WrittenModels ==
    LET xml_root == written.text.root
        meta == KidsNamed(xml_root, "TreeNodesModel")
    IN  IF meta = <<>> THEN <<>> ELSE xml_root.kids[meta[1]].kids

\* the attribute of <TreeNodesModel> elements that lists the ports of a
\* direction
PortsAttribute ==
    [INPUT |-> "input_ports", OUTPUT |-> "output_ports", INOUT |-> "inout_ports"]

\* C12: the <TreeNodesModel> written by writeXML has one element for every
\* manifest whose registration ID is no builtin node, a Control node too,
\* and none for a builtin one; the element lists the port names of each
\* direction in the attribute of that direction, which is absent when
\* there is none.
C12_ModelOfEveryManifest ==
    (last_call.op = "writeXML" /\ last_call.res.kind = "returned") =>
        /\ \A id \in DOMAIN Manifests :
              Cardinality({i \in 1..Len(WrittenModels) :
                              HasAttr(WrittenModels[i], "ID")
                                  /\ Attr(WrittenModels[i], "ID") = id})
                  = IF id \in BuiltinNodes THEN 0 ELSE 1
        /\ \A i \in 1..Len(WrittenModels) :
              LET e == WrittenModels[i]
                  model == Manifests[Attr(e, "ID")]
              IN  /\ e.tag = model.type
                  /\ \A direction \in DOMAIN PortsAttribute :
                        LET names == {n \in DOMAIN model.ports :
                                         model.ports[n].type = direction}
                        IN  IF names = {} THEN ~HasAttr(e, PortsAttribute[direction])
                            ELSE /\ HasAttr(e, PortsAttribute[direction])
                                 /\ Range(Attr(e, PortsAttribute[direction])) = names
                                 /\ Len(Attr(e, PortsAttribute[direction]))
                                        = Cardinality(names)


-----------------------------------------------------------------------------
\* the files a load of the file at path opens, in the order in which they
\* are opened, when a relative path of an <include> is joined to the
\* directory of the file the <include> is written in
RECURSIVE FilesAsStated(_, _, _)
FilesAsStated(files, path, depth) ==
    LET doc == LoadFile(files, PathStr(path))
        incs == IF doc.err \/ depth >= MaxNesting THEN <<>>
                ELSE KidsNamed(doc.root, "include")
        included(i) ==
            LET file_path == PathOf(Attr(doc.root.kids[incs[i]], "path"))
            IN  IF file_path.abs THEN file_path
                ELSE PathJoin(ParentPath(path), file_path)
    IN  <<path>> \o Flatten([i \in 1..Len(incs) |-> FilesAsStated(files, included(i), depth + 1)])

\* C13: after the first call on a parser, a loadFromFile, the documents
\* opened are those of the named file and of the files included, each
\* relative include path joined to the directory of the file it is written
\* in, and current_path is the directory of the file opened last.
C13_IncludeRelativeToIncluder ==
    (last_call.op = "loadFromFile" /\ Len(load_calls) = 1) =>
        LET stated == FilesAsStated(Files, MakeAbsolute(PathOf(last_call.arg)), 0)
            opened == Len(opened_documents)
        IN  /\ opened <= Len(stated)
            /\ \A i \in 1..opened :
                  opened_documents[i] = LoadFile(Files, PathStr(stated[i]))
            /\ current_path = ParentPath(stated[opened])


-----------------------------------------------------------------------------
\* the nodes of a tree that are subtree placeholders: DecoratorSubtreeNode
\* made for an element whose registration ID is no builder and is a key of
\* tree_roots
Placeholders(tree) ==
    {n \in 1..Len(tree.nodes) :
        tree.nodes[n].xml_ID \notin Builders /\ tree.nodes[n].xml_ID \in DOMAIN tree_roots}

\* no element of a tree body is named after a tree, or has the ID of a
\* tree, and carries a name attribute
NoNamedReference ==
    \A d \in WellFormedDocs :
        \A e \in BodiesOf(opened_documents[d].root) :
            (~BreaksRule(e) /\ ElementID(e) \notin Builders
                /\ ElementID(e) \in DOMAIN tree_roots) => ~HasAttr(e, "name")

\* C14: in every tree returned, a subtree placeholder has one child, the
\* node built from the first element of the body of the tree whose ID is
\* the registration ID of the placeholder's element; and an instantiation
\* that looks up a tree ID absent from tree_roots comes from no element
\* with a name attribute.
C14_PlaceholderExpandsItsID ==
    /\ TreeReturned =>
          \A n \in Placeholders(output_tree) :
              LET body == Deref(opened_documents, tree_roots[output_tree.nodes[n].xml_ID])
                  kids == output_tree.nodes[n].children
              IN  /\ Len(kids) = 1
                  /\ output_tree.nodes[kids[1]].line = body.kids[1].line
                  /\ output_tree.nodes[kids[1]].xml_ID = ElementID(body.kids[1])
    /\ (last_call.op = "instantiateTree" /\ AllLoadsReturned /\ ~NoNamedReference) =>
          last_call.res.what # "tree_roots[tree_ID] is a null XMLElement*"


-----------------------------------------------------------------------------
\* C15: instantiateTree, when every load* call returned, and every load*
\* call come to an end: none goes on nesting calls of recursivelyCreateTree
\* or of loadDocImpl without end.
C15_Terminates ==
    /\ (last_call.op = "instantiateTree" /\ AllLoadsReturned) =>
          last_call.res.kind # "unbounded"
    /\ IsLoad => last_call.res.kind # "unbounded"


-----------------------------------------------------------------------------
\* a load* call made on the parser failed
SomeLoadFailed == \E i \in 1..Len(load_calls) : load_calls[i].kind # "returned"

\* C16: instantiateTree returns a Tree only if every load* call made before
\* it returned; after a load* call that failed, instantiateTree with a
\* non-null root blackboard throws an error.
C16_NoTreeAfterFailedLoad ==
    /\ TreeReturned => ~SomeLoadFailed
    /\ (last_call.op = "instantiateTree" /\ SomeLoadFailed /\ ~last_call.arg.null) =>
          last_call.res.kind = "thrown"

=============================================================================
